---- MODULE Spec2Model ----
(***************************************************************************)
(* Model of sprites/create_spritesheets.py: main() packs the icon          *)
(* directories into sprite sheets, then translates the 32rogues label      *)
(* files into atlases.  Text is a sequence of one-character strings; an    *)
(* atlas file is a sequence of tokens (a line's content, or a newline).    *)
(***************************************************************************)
EXTENDS Integers, Sequences, FiniteSets, TLC

VARIABLES tree, pc, idx, outPng, outAtlas, printed

vars == <<tree, pc, idx, outPng, outAtlas, printed>>

\* ------------------------------------------------------------- bounds
MaxIcons   == 10    \* longest generated series fa1.png .. fa<MaxIcons>.png
MaxShuffle == 3     \* directories up to this size are listed in every order
MaxLines   == 2     \* raw lines of a label file
MaxTiles   == 3     \* whole tiles per side of a legacy sheet

\* ------------------------------------------------------------- characters
Ascii ==
  <<" ","!","QUOTE","#","$","%","&","APOSTROPHE","(",")","*","+",",","-",".","/",
    "0","1","2","3","4","5","6","7","8","9",":",";","<","=",">","?","@",
    "A","B","C","D","E","F","G","H","I","J","K","L","M","N","O","P","Q",
    "R","S","T","U","V","W","X","Y","Z","[","BACKSLASH","]","^","_","GRAVE",
    "a","b","c","d","e","f","g","h","i","j","k","l","m","n","o","p","q",
    "r","s","t","u","v","w","x","y","z","{","|","}","~">>

\* ord(c) for the printable ASCII characters (Ascii[i] is chr(31 + i); the four
\* quoting characters, which no modelled text uses, are spelled out)
OrdTable ==
  [c \in {Ascii[i] : i \in 1..Len(Ascii)} |->
     31 + (CHOOSE i \in 1..Len(Ascii) : Ascii[i] = c)]

Ord(c) == OrdTable[c]

\* str.isdigit / regex \d on one character
IsDigit(c) == c \in {"0","1","2","3","4","5","6","7","8","9"}

\* regex [a-z]
IsLowerLetter(c) == ~IsDigit(c) /\ c # " " /\ c # "\t" /\ Ord(c) \in 97..122

\* regex \s / str.strip on one character
IsSpace(c) == c \in {" ", "\t"}

\* str.lower on one character
LowerChar(c) ==
  IF c = "\t" THEN c
  ELSE IF Ord(c) \in 65..90 THEN Ascii[Ord(c) + 32 - 31] ELSE c

\* str.lower
Lower(s) == [i \in 1..Len(s) |-> LowerChar(s[i])]

\* str.endswith
EndsWith(s, suffix) ==
  /\ Len(s) >= Len(suffix)
  /\ SubSeq(s, Len(s) - Len(suffix) + 1, Len(s)) = suffix

\* the < of two str values: lexicographic by code point
RECURSIVE StrLess(_, _)
StrLess(a, b) ==
  IF b = <<>> THEN FALSE
  ELSE IF a = <<>> THEN TRUE
  ELSE IF Head(a) = Head(b) THEN StrLess(Tail(a), Tail(b))
  ELSE Ord(Head(a)) < Ord(Head(b))

\* int() of a run of decimal digits
RECURSIVE ParseInt(_)
ParseInt(ds) ==
  IF ds = <<>> THEN 0
  ELSE 10 * ParseInt(SubSeq(ds, 1, Len(ds) - 1)) + (Ord(ds[Len(ds)]) - 48)

\* str() of a natural number, as an f-string formats it
RECURSIVE Str(_)
Str(n) ==
  IF n < 10 THEN <<Ascii[n + 48 - 31]>>
  ELSE Str(n \div 10) \o <<Ascii[(n % 10) + 48 - 31]>>

\* os.path.splitext(fname)[0]: cut at the last dot, unless only dots lead to it
Stem(fname) ==
  LET dots == {i \in 1..Len(fname) : fname[i] = "."}
      last == CHOOSE i \in dots : \A j \in dots : j <= i
  IN IF dots = {} THEN fname
     ELSE IF \A j \in 1..(last - 1) : fname[j] = "." THEN fname
     ELSE SubSeq(fname, 1, last - 1)

\* the test  f.lower().endswith(".png")
IsPng(fname) == EndsWith(Lower(fname), <<".","p","n","g">>)

\* ------------------------------------------------------------- natural sort
\* re.split(r'(\d+)', s): text, digits, text, ..., text (the ends may be empty)
RECURSIVE SplitRunsFrom(_, _, _, _, _)
SplitRunsFrom(s, i, cur, inDigits, acc) ==
  IF i > Len(s)
  THEN IF inDigits THEN acc \o <<cur, <<>>>> ELSE Append(acc, cur)
  ELSE IF IsDigit(s[i]) = inDigits
       THEN SplitRunsFrom(s, i + 1, Append(cur, s[i]), inDigits, acc)
       ELSE SplitRunsFrom(s, i + 1, <<s[i]>>, ~inDigits, Append(acc, cur))

SplitRuns(s) == SplitRunsFrom(s, 1, <<>>, FALSE, <<>>)

\* one element of the key: int(c) if c.isdigit() else c.lower()
KeyPart(run) ==
  IF run # <<>> /\ \A i \in 1..Len(run) : IsDigit(run[i])
  THEN [isInt |-> TRUE, n |-> ParseInt(run), s |-> <<>>]
  ELSE [isInt |-> FALSE, n |-> 0, s |-> Lower(run)]

natural_sort_key(s) ==
  LET runs == SplitRuns(s) IN [i \in 1..Len(runs) |-> KeyPart(runs[i])]

\* the < of two keys (Python lists): the first differing element decides, a
\* proper prefix is smaller.  Elements at one index are both text (odd index)
\* or both int (even index), so int is never compared with str.
RECURSIVE KeyLess(_, _)
KeyLess(a, b) ==
  IF b = <<>> THEN FALSE
  ELSE IF a = <<>> THEN TRUE
  ELSE IF Head(a) = Head(b) THEN KeyLess(Tail(a), Tail(b))
  ELSE IF Head(a).isInt THEN Head(a).n < Head(b).n
  ELSE StrLess(Head(a).s, Head(b).s)

\* sorted(xs, key=natural_sort_key): stable, an element goes after every
\* element whose key is not greater than its own
RECURSIVE SortedNatural(_)
SortedNatural(xs) ==
  IF xs = <<>> THEN <<>>
  ELSE LET init == SortedNatural(SubSeq(xs, 1, Len(xs) - 1))
           x    == xs[Len(xs)]
           keep == {i \in 1..Len(init) :
                      ~KeyLess(natural_sort_key(x), natural_sort_key(init[i]))}
           k    == Cardinality(keep)
       IN SubSeq(init, 1, k) \o <<x>> \o SubSeq(init, k + 1, Len(init))

\* sorted(xs) of distinct str values
RECURSIVE SortedPlain(_)
SortedPlain(xs) ==
  IF xs = <<>> THEN <<>>
  ELSE LET init == SortedPlain(SubSeq(xs, 1, Len(xs) - 1))
           x    == xs[Len(xs)]
           k    == Cardinality({i \in 1..Len(init) : ~StrLess(x, init[i])})
       IN SubSeq(init, 1, k) \o <<x>> \o SubSeq(init, k + 1, Len(init))

\* ------------------------------------------------------------- atlas text
NL == [t |-> "nl"]

\* "\n".join(lines)
RECURSIVE JoinLines(_)
JoinLines(lines) ==
  IF lines = <<>> THEN <<>>
  ELSE IF Len(lines) = 1 THEN <<lines[1]>>
  ELSE <<lines[1], NL>> \o JoinLines(Tail(lines))

\* the six f.write calls that write an atlas file
AtlasText(title, count, sheet_w, sheet_h, w, h, atlas_lines) ==
  << [t |-> "title", file |-> title], NL,
     [t |-> "total", count |-> count], NL,
     [t |-> "sheet", sw |-> sheet_w, sh |-> sheet_h], NL,
     [t |-> "icon", iw |-> w, ih |-> h], NL,
     [t |-> "format"], NL >>
  \o JoinLines(atlas_lines) \o <<NL>>

\* f"{name}\t{x}\t{y}\t{w}\t{h}"
AtlasLine(name, x, y, w, h) ==
  [t |-> "rec", name |-> name, x |-> x, y |-> y, w |-> w, h |-> h]

\* one print of the run
Printed(ev, at, count, cols, rows) ==
  [ev |-> ev, at |-> at, count |-> count, cols |-> cols, rows |-> rows]

\* ------------------------------------------------------------- packer
\* the slip  int(math.sqrt(count)) + 1: one column too many for a perfect square
CeilSqrtTruncPlusOne(count) ==
  (CHOOSE r \in 0..count : r * r <= count /\ count < (r + 1) * (r + 1)) + 1

\* math.ceil(math.sqrt(count)): the root of a perfect square is exact, any
\* other root lies strictly between two integers
CeilSqrt(count) ==
  LET s == CHOOSE r \in 0..count : r * r <= count /\ count < (r + 1) * (r + 1)
  IN IF s * s = count THEN s ELSE s + 1

\* math.ceil(count / cols)
CeilDiv(count, cols) ==
  IF count % cols = 0 THEN count \div cols ELSE (count \div cols) + 1

\* Image.open(path): the icon files of one tree share one pixel size
OpenIcon(path) == [src |-> path, w |-> tree.px, h |-> tree.px]

\* icon.resize(icon_size, Image.NEAREST) when icon.size != icon_size
Resized(icon, w, h) ==
  IF <<icon.w, icon.h>> # <<w, h>> THEN [icon EXCEPT !.w = w, !.h = h] ELSE icon

\* the slip  col = idx // cols
SlotXByRow(i, cols, w) == (i \div cols) * w

\* the cell of 0-based index i: col = idx % cols, row = idx // cols
SlotX(i, cols, w) == (i % cols) * w
SlotY(i, cols, h) == (i \div cols) * h

\* the grid, the pasted canvas and the atlas lines of a non-empty collection
\* of (name, path) entries
PackSheet(entries, w, h) ==
  LET count   == Len(entries)
      cols    == CeilSqrt(count)
      rows    == CeilDiv(count, cols)
      icon(i) == Resized(OpenIcon(entries[i].path), w, h)
  IN [count   |-> count,
      cols    |-> cols,
      rows    |-> rows,
      image   |-> [w |-> cols * w, h |-> rows * h,
                   cells |-> [i \in 1..count |->
                               [src |-> icon(i).src,
                                x |-> SlotX(i - 1, cols, w),
                                y |-> SlotY(i - 1, cols, h),
                                w |-> icon(i).w, h |-> icon(i).h]]],
      lines   |-> [i \in 1..count |->
                    AtlasLine(entries[i].name, SlotX(i - 1, cols, w),
                              SlotY(i - 1, cols, h), w, h)]]

SelectPng(listing) == SelectSeq(listing, IsPng)

\* files of create_spritesheet_from_dir, with the name and path of each
FlatEntries(dirname, listing) ==
  LET files == SortedNatural(SelectPng(listing))
  IN [i \in 1..Len(files) |->
        [name |-> Stem(files[i]), path |-> dirname \o <<"/">> \o files[i]]]

\* the inner loop of create_spritesheet_from_categorized_dirs for one category
CategoryEntries(category, listing) ==
  LET files == SelectPng(SortedNatural(listing))
  IN [i \in 1..Len(files) |->
        [name |-> category \o <<"/">> \o Stem(files[i]),
         path |-> category \o <<"/">> \o files[i]]]

\* files_with_paths: the directories among the sorted entries, in order;
\* ls[c] is what os.listdir returns for category c
RECURSIVE CategorizedEntries(_, _, _)
CategorizedEntries(cats, isdir, ls) ==
  IF cats = <<>> THEN <<>>
  ELSE (IF isdir[Head(cats)] THEN CategoryEntries(Head(cats), ls[Head(cats)])
        ELSE <<>>)
       \o CategorizedEntries(Tail(cats), isdir, ls)

\* ------------------------------------------------------------- legacy labels
tile_size == 32

\* the sheets list of generate_32rogues_atlas, with the output names of each
sheets ==
  << [name |-> "items", outPng |-> "32rogues-items.png",
      outAtlas |-> "32rogues-items-atlas.txt"],
     [name |-> "monsters", outPng |-> "32rogues-monsters.png",
      outAtlas |-> "32rogues-monsters-atlas.txt"],
     [name |-> "animals", outPng |-> "32rogues-animals.png",
      outAtlas |-> "32rogues-animals-atlas.txt"],
     [name |-> "rogues", outPng |-> "32rogues-rogues.png",
      outAtlas |-> "32rogues-rogues-atlas.txt"],
     [name |-> "tiles", outPng |-> "32rogues-tiles.png",
      outAtlas |-> "32rogues-tiles-atlas.txt"],
     [name |-> "animated-tiles", outPng |-> "32rogues-animated-tiles.png",
      outAtlas |-> "32rogues-animated-tiles-atlas.txt"],
     [name |-> "autotiles", outPng |-> "32rogues-autotiles.png",
      outAtlas |-> "32rogues-autotiles-atlas.txt"] >>

\* str.strip
RECURSIVE Strip(_)
Strip(s) ==
  IF s = <<>> THEN s
  ELSE IF IsSpace(Head(s)) THEN Strip(Tail(s))
  ELSE IF IsSpace(s[Len(s)]) THEN Strip(SubSeq(s, 1, Len(s) - 1))
  ELSE s

\* all_lines = [l.strip() for l in f if l.strip()]
RECURSIVE NonEmptyStripped(_)
NonEmptyStripped(raw) ==
  IF raw = <<>> THEN <<>>
  ELSE (IF Strip(Head(raw)) # <<>> THEN <<Strip(Head(raw))>> ELSE <<>>)
       \o NonEmptyStripped(Tail(raw))

\* how many characters \d+ takes at the start of the line
RECURSIVE LeadDigits(_)
LeadDigits(l) ==
  IF l # <<>> /\ IsDigit(Head(l)) THEN 1 + LeadDigits(Tail(l)) ELSE 0

\* how many characters \s+ can take from position q on
RECURSIVE SpacesFrom(_, _)
SpacesFrom(l, q) ==
  IF q <= Len(l) /\ IsSpace(l[q]) THEN 1 + SpacesFrom(l, q + 1) ELSE 0

\* re.match(r'^\d+\.[a-z]', l)
MatchesRowColPrefix(l) ==
  LET k == LeadDigits(l)
  IN k >= 1 /\ Len(l) >= k + 2 /\ l[k + 1] = "." /\ IsLowerLetter(l[k + 2])

\* re.match(r'^\d+\.\s', l)
MatchesRowNumPrefix(l) ==
  LET k == LeadDigits(l)
  IN k >= 1 /\ Len(l) >= k + 2 /\ l[k + 1] = "." /\ IsSpace(l[k + 2])

\* the tail  \s+(.+)$  from position q on: \s+ takes the whole run of
\* whitespace, and gives one character back when the run ends the line
TailText(l, q) ==
  LET m == SpacesFrom(l, q)
  IN IF m = 0 THEN [ok |-> FALSE, text |-> <<>>]
     ELSE IF q + m <= Len(l)
          THEN [ok |-> TRUE, text |-> SubSeq(l, q + m, Len(l))]
     ELSE IF m >= 2 THEN [ok |-> TRUE, text |-> <<l[Len(l)]>>]
     ELSE [ok |-> FALSE, text |-> <<>>]

\* re.match(r'^(\d+)\.([a-z])\.?\s+(.+)$', line)
MatchGridRef(line) ==
  LET k == LeadDigits(line)
      q == IF Len(line) >= k + 3 /\ line[k + 3] = "." THEN k + 4 ELSE k + 3
  IN IF MatchesRowColPrefix(line) /\ TailText(line, q).ok
     THEN [ok |-> TRUE, row |-> SubSeq(line, 1, k), col |-> line[k + 2],
           text |-> TailText(line, q).text]
     ELSE [ok |-> FALSE, row |-> <<>>, col |-> "", text |-> <<>>]

\* re.match(r'^(\d+)\.\s+(.+)$', line)
MatchRowLabel(line) ==
  LET k == LeadDigits(line)
  IN IF k >= 1 /\ Len(line) >= k + 1 /\ line[k + 1] = "."
        /\ TailText(line, k + 2).ok
     THEN [ok |-> TRUE, row |-> SubSeq(line, 1, k),
           text |-> TailText(line, k + 2).text]
     ELSE [ok |-> FALSE, row |-> <<>>, text |-> <<>>]

has_row_col(all_lines) ==
  \E i \in 1..Len(all_lines) : MatchesRowColPrefix(all_lines[i])

has_row_num(all_lines) ==
  \E i \in 1..Len(all_lines) : MatchesRowNumPrefix(all_lines[i])

\* the branch of the if / elif / else that the label file takes
LabelFormat(all_lines) ==
  IF has_row_col(all_lines) THEN "GridRef"
  ELSE IF has_row_num(all_lines) THEN "RowLabel"
  ELSE "PlainLabel"

RECURSIVE Flatten(_)
Flatten(ss) == IF ss = <<>> THEN <<>> ELSE Head(ss) \o Flatten(Tail(ss))

\* Format 1: one line for each line of the file that matches
GridRefLines(all_lines) ==
  Flatten([i \in 1..Len(all_lines) |->
    LET m == MatchGridRef(all_lines[i])
    IN IF m.ok
       THEN <<AtlasLine(Strip(m.text),
                        (Ord(m.col) - Ord("a")) * tile_size,
                        (ParseInt(m.row) - 1) * tile_size,
                        tile_size, tile_size)>>
       ELSE <<>>])

\* Format 2: one line per column for each line of the file that matches
RowLabelLines(all_lines, cols) ==
  Flatten([i \in 1..Len(all_lines) |->
    LET m == MatchRowLabel(all_lines[i])
    IN IF m.ok
       THEN [c \in 1..cols |->
               AtlasLine(Strip(m.text) \o <<" ","[","f","r","a","m","e"," ">>
                           \o Str(c - 1) \o <<"]">>,
                         (c - 1) * tile_size,
                         (ParseInt(m.row) - 1) * tile_size,
                         tile_size, tile_size)]
       ELSE <<>>])

\* Format 3: the loop over all_lines, current_row advancing by rows_per_group
RECURSIVE PlainLabelFrom(_, _, _, _)
PlainLabelFrom(lines, current_row, rows_per_group, cols) ==
  IF lines = <<>> THEN <<>>
  ELSE Flatten([r \in 1..rows_per_group |->
         [c \in 1..cols |->
            AtlasLine(Strip(Head(lines)) \o <<" ","[","r","o","w"," ">>
                        \o Str(r - 1) \o <<","," ","c","o","l"," ">>
                        \o Str(c - 1) \o <<"]">>,
                      (c - 1) * tile_size,
                      (current_row + (r - 1)) * tile_size,
                      tile_size, tile_size)]])
       \o PlainLabelFrom(Tail(lines), current_row + rows_per_group,
                         rows_per_group, cols)

\* the slip of rounding the rows of a group up
RowsPerGroupCeil(rows, label_count) ==
  (rows + (IF label_count > 1 THEN label_count ELSE 1) - 1)
    \div (IF label_count > 1 THEN label_count ELSE 1)

\* rows_per_group = rows // max(1, label_count)
RowsPerGroup(rows, label_count) ==
  rows \div (IF label_count > 1 THEN label_count ELSE 1)

PlainLabelLines(all_lines, cols, rows) ==
  PlainLabelFrom(all_lines, 0, RowsPerGroup(rows, Len(all_lines)), cols)

\* atlas_lines of one sheet
LegacyLines(all_lines, cols, rows) ==
  IF has_row_col(all_lines) THEN GridRefLines(all_lines)
  ELSE IF has_row_num(all_lines) THEN RowLabelLines(all_lines, cols)
  ELSE PlainLabelLines(all_lines, cols, rows)

\* the slip of skipping a sheet only when both of its files are missing
SheetMissingBoth(in) == ~in.png.exists /\ ~in.txt.exists

\* the test that skips a sheet
SheetMissing(in) == ~in.png.exists \/ ~in.txt.exists

\* ------------------------------------------------------------- input trees
\* os.listdir returns the names of a directory in an arbitrary order: every
\* order for a small directory, two opposite orders for a larger one
RECURSIVE SomeOrder(_)
SomeOrder(S) ==
  IF S = {} THEN <<>>
  ELSE LET x == CHOOSE y \in S : TRUE IN <<x>> \o SomeOrder(S \ {x})

Reverse(xs) == [i \in 1..Len(xs) |-> xs[Len(xs) + 1 - i]]

Listings(S) ==
  IF Cardinality(S) <= MaxShuffle
  THEN {p \in [1..Cardinality(S) -> S] : \A i, j \in DOMAIN p : p[i] = p[j] => i = j}
  ELSE {SomeOrder(S), Reverse(SomeOrder(S))}

\* fa1.png .. fa<k>.png
Series(k) == {<<"f","a">> \o Str(i) \o <<".","p","n","g">> : i \in 1..k}

\* names whose natural-sort keys collide, an upper-case extension, a text file
TiePool ==
  { <<"f","a","1",".","p","n","g">>, <<"F","A","1",".","p","n","g">>,
    <<"f","a","0","1",".","p","n","g">>, <<"f","a","1","0",".","P","N","G">>,
    <<"n","o","t","e","s",".","t","x","t">> }

DirChoices == {Series(k) : k \in 0..MaxIcons} \cup SUBSET TiePool

\* entries of the categorized base directory; readme.txt is a plain file
CatPool ==
  { <<"a","r","m","o","r">>, <<"R","i","n","g">>,
    <<"r","e","a","d","m","e",".","t","x","t">> }

IsDirEntry(name) == name # <<"r","e","a","d","m","e",".","t","x","t">>

\* the three Raven directories of main: size_name, icon_size, output names
raven ==
  << [size_name |-> <<"1","6","x","1","6">>, icon_size |-> 16,
      outPng |-> "raven-fantasy-16x16-spritesheet.png",
      outAtlas |-> "raven-fantasy-16x16-atlas.txt"],
     [size_name |-> <<"3","2","x","3","2">>, icon_size |-> 32,
      outPng |-> "raven-fantasy-32x32-spritesheet.png",
      outAtlas |-> "raven-fantasy-32x32-atlas.txt"],
     [size_name |-> <<"6","4","x","6","4">>, icon_size |-> 64,
      outPng |-> "raven-fantasy-64x64-spritesheet.png",
      outAtlas |-> "raven-fantasy-64x64-atlas.txt"] >>

\* raw lines a label file is made of
LinePool ==
  { <<"1",".","a"," ","x">>, <<"3",".","c","."," ","y">>, <<"1",".","a","b">>,
    <<"2","."," ","w">>, <<" ","p">>, <<>> }

LabelFiles == UNION {[1..n -> LinePool] : n \in 0..MaxLines}

\* pixels beyond the last whole tile, in width and in height
Paddings == {<<0, 0>>, <<8, 0>>, <<0, 16>>}

LegacySheet(png, txt, w, h, lines) ==
  [png |-> [exists |-> png, w |-> w, h |-> h],
   txt |-> [exists |-> txt, lines |-> lines]]

SheetSamples ==
  { LegacySheet(TRUE, TRUE, tile_size * c + pad[1], tile_size * r + pad[2], lines) :
      c \in 1..MaxTiles, r \in 1..MaxTiles, pad \in Paddings, lines \in LabelFiles }

DefaultSheet == LegacySheet(TRUE, TRUE, 64, 64, << <<"1",".","a"," ","x">> >>)

\* a sheet with both files, or without one of them, or without both
PresenceKinds ==
  { DefaultSheet, [DefaultSheet EXCEPT !.png.exists = FALSE],
    [DefaultSheet EXCEPT !.txt.exists = FALSE],
    [DefaultSheet EXCEPT !.png.exists = FALSE, !.txt.exists = FALSE] }

\* a directory: whether it exists, and the names in it
Dir(exists, files) == [exists |-> exists, files |-> files]

DefaultDir == Dir(TRUE, Series(2))

\* the categorized base directory: its entries, and the names in each category
DefaultRpg == [exists |-> TRUE, entries |-> {<<"a","r","m","o","r">>},
               files |-> Series(2)]

DefaultRaven == [i \in 1..Len(raven) |-> DefaultDir]

\* trees that vary the categorized directory
RpgTrees ==
  { [px |-> px, rpg |-> rpg, raven |-> DefaultRaven,
     rogues |-> [i \in 1..Len(sheets) |-> DefaultSheet], swaps |-> sw] :
      px \in {16, 32}, sw \in BOOLEAN,
      rpg \in {[exists |-> FALSE, entries |-> {}, files |-> {}]}
                \cup {[exists |-> TRUE, entries |-> e, files |-> s] :
                        e \in SUBSET CatPool, s \in DirChoices} }

\* trees that vary one Raven directory and which of the three exist
RavenTrees ==
  { [px |-> px, rpg |-> DefaultRpg,
     raven |-> [i \in 1..Len(raven) |->
                  Dir(rv[i], IF i = rich THEN s ELSE Series(2))],
     rogues |-> [i \in 1..Len(sheets) |-> DefaultSheet], swaps |-> TRUE] :
      px \in {16, 32}, rich \in 1..Len(raven), s \in DirChoices,
      rv \in [1..Len(raven) -> BOOLEAN] }

\* trees that vary the icon directories
PackTrees == RpgTrees \cup RavenTrees

\* trees that vary the content of the legacy sheets
LegacyTrees ==
  { [px |-> 32, rpg |-> DefaultRpg, raven |-> DefaultRaven,
     rogues |-> [i \in 1..Len(sheets) |-> sh], swaps |-> TRUE] :
      sh \in SheetSamples }

\* trees that vary which legacy files exist
BatchTrees ==
  { [px |-> 32, rpg |-> DefaultRpg, raven |-> DefaultRaven,
     rogues |-> rg, swaps |-> TRUE] :
      rg \in [1..Len(sheets) -> PresenceKinds] }

\* ------------------------------------------------------------- main
Start ==
  /\ pc = "rpg"
  /\ idx = 1
  /\ outPng = <<>>
  /\ outAtlas = <<>>
  /\ printed = <<>>

Init == tree \in PackTrees /\ Start

InitLegacy == tree \in LegacyTrees /\ Start

InitBatch == tree \in BatchTrees /\ Start

\* the tail of both packers: nothing for an empty collection, else the sheet
\* and its atlas
WritePack(entries, w, h, png, atlas) ==
  IF entries = <<>>
  THEN /\ printed' = Append(printed, Printed("nopng", png, 0, 0, 0))
       /\ UNCHANGED <<outPng, outAtlas>>
  ELSE LET p == PackSheet(entries, w, h)
       IN /\ outPng' = (png :> p.image) @@ outPng
          /\ outAtlas' = (atlas :> AtlasText(png, p.count, p.image.w, p.image.h,
                                             w, h, p.lines)) @@ outAtlas
          /\ printed' = Append(printed, Printed("grid", png, p.count, p.cols, p.rows))

\* create_spritesheet_from_categorized_dirs(rpg_dir, ...): os.listdir of a
\* directory that does not exist raises, and main does not catch it
RpgPack ==
  /\ pc = "rpg"
  /\ IF ~tree.rpg.exists
     THEN /\ pc' = "raised"
          /\ UNCHANGED <<idx, outPng, outAtlas, printed>>
     ELSE /\ \E cats \in Listings(tree.rpg.entries) :
               \E ls \in [{c \in tree.rpg.entries : IsDirEntry(c)}
                            -> Listings(tree.rpg.files)] :
                 WritePack(CategorizedEntries(SortedPlain(cats),
                                              [c \in tree.rpg.entries |-> IsDirEntry(c)],
                                              ls),
                           32, 32, "pixel-art-rpg-spritesheet.png",
                           "pixel-art-rpg-atlas.txt")
          /\ pc' = "raven"
          /\ idx' = 1
  /\ UNCHANGED tree

\* one turn of the Raven loop: create_spritesheet_from_dir when the directory is there
RavenPack ==
  /\ pc = "raven"
  /\ IF tree.raven[idx].exists
     THEN \E listing \in Listings(tree.raven[idx].files) :
            WritePack(FlatEntries(raven[idx].size_name, listing),
                      raven[idx].icon_size, raven[idx].icon_size,
                      raven[idx].outPng, raven[idx].outAtlas)
     ELSE UNCHANGED <<outPng, outAtlas, printed>>
  /\ IF idx < Len(raven)
     THEN pc' = pc /\ idx' = idx + 1
     ELSE pc' = "rogues" /\ idx' = 1
  /\ UNCHANGED tree

\* one turn of the loop of generate_32rogues_atlas
RogueSheet ==
  /\ pc = "rogues"
  /\ LET in      == tree.rogues[idx]
         sheet_w == in.png.w
         sheet_h == in.png.h
         cols    == sheet_w \div tile_size
         rows    == sheet_h \div tile_size
         lines   == LegacyLines(NonEmptyStripped(in.txt.lines), cols, rows)
     IN IF SheetMissing(in)
        THEN /\ printed' = Append(printed, Printed("skip", sheets[idx].name, 0, 0, 0))
             /\ UNCHANGED <<outPng, outAtlas>>
        ELSE /\ outPng' = (sheets[idx].outPng :>
                             [w |-> sheet_w, h |-> sheet_h, cells |-> <<>>]) @@ outPng
             /\ outAtlas' = (sheets[idx].outAtlas :>
                               AtlasText(sheets[idx].outPng, Len(lines), sheet_w,
                                         sheet_h, tile_size, tile_size, lines))
                            @@ outAtlas
             /\ printed' = Append(printed,
                                  Printed("grid", sheets[idx].name, Len(lines), cols, rows))
  /\ IF idx < Len(sheets)
     THEN pc' = pc /\ idx' = idx + 1
     ELSE pc' = "swaps" /\ idx' = 1
  /\ UNCHANGED tree

\* the copy of items-palette-swaps.png and the closing report
Swaps ==
  /\ pc = "swaps"
  /\ outPng' = IF tree.swaps
               THEN ("32rogues-items-palette-swaps.png" :>
                       [w |-> 64, h |-> 64, cells |-> <<>>]) @@ outPng
               ELSE outPng
  /\ pc' = "done"
  /\ UNCHANGED <<tree, idx, outAtlas, printed>>

Next == RpgPack \/ RavenPack \/ RogueSheet \/ Swaps

Spec == Init /\ [][Next]_vars

SpecLegacy == InitLegacy /\ [][Next]_vars

SpecBatch == InitBatch /\ [][Next]_vars

\* ------------------------------------------------------------- reading the outputs
IsRec(tok) == tok.t = "rec"

\* the record lines of an atlas text, in order
RecordsOf(text) == SelectSeq(text, IsRec)

RpgPng == "pixel-art-rpg-spritesheet.png"
RpgAtlas == "pixel-art-rpg-atlas.txt"

RpgDone == pc \notin {"rpg", "raised"}
RavenDone(i) == pc \in {"rogues", "swaps", "done"} \/ (pc = "raven" /\ idx > i)
RogueDone(j) == pc \in {"swaps", "done"} \/ (pc = "rogues" /\ idx > j)

PathDir(path) == SubSeq(path, 1, (CHOOSE i \in 1..Len(path) : path[i] = "/") - 1)
PathFile(path) ==
  SubSeq(path, (CHOOSE i \in 1..Len(path) : path[i] = "/") + 1, Len(path))

PngsOf(files) == {f \in files : IsPng(f)}

\* the paths of the icons the Raven directory i holds, and those of the
\* categorized directory
RavenPaths(i) ==
  {raven[i].size_name \o <<"/">> \o f : f \in PngsOf(tree.raven[i].files)}

RpgPaths ==
  {c \o <<"/">> \o f : c \in {e \in tree.rpg.entries : IsDirEntry(e)},
                       f \in PngsOf(tree.rpg.files)}

PackGridEvents ==
  {i \in 1..Len(printed) :
     printed[i].ev = "grid"
     /\ printed[i].at \in {RpgPng} \cup {raven[k].outPng : k \in 1..Len(raven)}}

\* C1: for every icon count n >= 1 the packer (both functions) takes cols as
\* the smallest integer with cols*cols >= n and rows as the smallest integer
\* with cols*rows >= n.
C1_GridIsSmallest ==
  \A i \in PackGridEvents :
    LET n == printed[i].count
        cols == printed[i].cols
        rows == printed[i].rows
    IN /\ n >= 1
       /\ cols * cols >= n
       /\ \A c \in 0..(cols - 1) : c * c < n
       /\ cols * rows >= n
       /\ \A r \in 0..(rows - 1) : cols * r < n

\* both packers ran, one of them on seven icons or more
C1_Witness ==
  /\ \E i \in PackGridEvents : printed[i].at = RpgPng
  /\ \E i \in PackGridEvents : printed[i].at # RpgPng /\ printed[i].count >= 7

\* the sheet and atlas under the given names hold exactly the icons of
\* `paths`, each once, at the cell of its index, in collection order
PackedRight(png, atlas, paths, w, h, categorized) ==
  LET n     == Cardinality(paths)
      recs  == RecordsOf(outAtlas[atlas])
      img   == outPng[png]
      cols  == CHOOSE c \in 1..n : c * c >= n /\ (c - 1) * (c - 1) < n
      rows  == CHOOSE r \in 1..n : cols * r >= n /\ cols * (r - 1) < n
  IN /\ Len(recs) = n
     /\ Len(img.cells) = n
     /\ {img.cells[j].src : j \in 1..n} = paths
     /\ img.w = cols * w
     /\ img.h = rows * h
     /\ \A j \in 1..n :
          /\ recs[j].x = ((j - 1) % cols) * w
          /\ recs[j].y = ((j - 1) \div cols) * h
          /\ recs[j].w = w
          /\ recs[j].h = h
          /\ recs[j].x + recs[j].w <= img.w
          /\ recs[j].y + recs[j].h <= img.h
          /\ img.cells[j].x = recs[j].x
          /\ img.cells[j].y = recs[j].y
          /\ img.cells[j].w = w
          /\ img.cells[j].h = h
          /\ recs[j].name = IF categorized
                            THEN PathDir(img.cells[j].src) \o <<"/">>
                                   \o Stem(PathFile(img.cells[j].src))
                            ELSE Stem(PathFile(img.cells[j].src))
     /\ \A j, k \in 1..n :
          j < k =>
            LET a == img.cells[j].src
                b == img.cells[k].src
            IN IF PathDir(a) = PathDir(b)
               THEN ~KeyLess(natural_sort_key(PathFile(b)),
                             natural_sort_key(PathFile(a)))
               ELSE StrLess(PathDir(a), PathDir(b))

\* C8: for n >= 1 icons packed with cell size (w, h), the record of the entry
\* at 0-based index i has x = (i mod cols)*w, y = (i div cols)*h and size
\* (w, h), lies inside the canvas of cols*w by rows*h, and every entry gets
\* exactly one record, in collection order.
C8_RecordsAtTheirCells ==
  /\ (RpgDone /\ RpgPaths # {}) =>
       /\ RpgPng \in DOMAIN outPng
       /\ RpgAtlas \in DOMAIN outAtlas
       /\ PackedRight(RpgPng, RpgAtlas, RpgPaths, 32, 32, TRUE)
  /\ \A i \in 1..Len(raven) :
       (RavenDone(i) /\ tree.raven[i].exists /\ RavenPaths(i) # {}) =>
         /\ raven[i].outPng \in DOMAIN outPng
         /\ raven[i].outAtlas \in DOMAIN outAtlas
         /\ PackedRight(raven[i].outPng, raven[i].outAtlas, RavenPaths(i),
                        raven[i].icon_size, raven[i].icon_size, FALSE)

\* a categorized sheet and a flat sheet of seven icons or
\* more, resized from another pixel size, are both written
C8_Witness ==
  /\ pc = "done"
  /\ RpgPng \in DOMAIN outPng
  /\ \E i \in 1..Len(raven) :
       /\ raven[i].outPng \in DOMAIN outPng
       /\ Len(outPng[raven[i].outPng].cells) >= 7
       /\ tree.px # raven[i].icon_size

\* the atlas text the flat packer writes for Raven directory i when
\* os.listdir returns `listing`
FlatAtlasFor(i, listing) ==
  LET p == PackSheet(FlatEntries(raven[i].size_name, listing),
                     raven[i].icon_size, raven[i].icon_size)
  IN AtlasText(raven[i].outPng, p.count, p.image.w, p.image.h,
               raven[i].icon_size, raven[i].icon_size, p.lines)

\* C6: for a fixed set of file names in a directory the packer's sequence of
\* atlas records is the same on every run, whatever order the directory
\* listing returns the names in, names with equal natural-sort keys included.
C6_SameAtlasForEveryListing ==
  \A i \in 1..Len(raven) :
    raven[i].outAtlas \in DOMAIN outAtlas =>
      \A listing \in Listings(tree.raven[i].files) :
        outAtlas[raven[i].outAtlas] = FlatAtlasFor(i, listing)

\* C5: when the source directory of a new pack (flat or categorized) does not
\* exist, collection raises no error, nothing is written for that pack, and
\* the batch goes on to every later sheet.
C5_MissingDirectoryIsSkipped ==
  /\ ~tree.rpg.exists =>
       /\ pc # "raised"
       /\ RpgPng \notin DOMAIN outPng
       /\ RpgAtlas \notin DOMAIN outAtlas
  /\ \A i \in 1..Len(raven) :
       ~tree.raven[i].exists =>
         /\ pc # "raised"
         /\ raven[i].outPng \notin DOMAIN outPng
         /\ raven[i].outAtlas \notin DOMAIN outAtlas

\* ------------------------------------------------------------- legacy claims
\* the label lines of legacy sheet j as the translator reads them
AllLines(j) == NonEmptyStripped(tree.rogues[j].txt.lines)

LegacyWritten(j) == sheets[j].outAtlas \in DOMAIN outAtlas

LegacyRecords(j) == RecordsOf(outAtlas[sheets[j].outAtlas])

\* C2: every atlas record the legacy translator emits, under any of the three
\* label formats and for any label file, has x + w <= sheet width and
\* y + h <= sheet height, the sheet size being that of the source image.
C2_LegacyRecordsInsideSheet ==
  \A j \in 1..Len(sheets) :
    LegacyWritten(j) =>
      \A k \in 1..Len(LegacyRecords(j)) :
        /\ LegacyRecords(j)[k].x + LegacyRecords(j)[k].w <= tree.rogues[j].png.w
        /\ LegacyRecords(j)[k].y + LegacyRecords(j)[k].h <= tree.rogues[j].png.h

\* the class of a label file by the full line shapes
FullShapeFormat(all_lines) ==
  IF \E i \in 1..Len(all_lines) : MatchGridRef(all_lines[i]).ok THEN "GridRef"
  ELSE IF \E i \in 1..Len(all_lines) : MatchRowLabel(all_lines[i]).ok THEN "RowLabel"
  ELSE "PlainLabel"

\* C3: the label file is classified once, file-wide: GridRef iff some line has
\* the full shape integer, dot, lower-case letter, optional dot, whitespace,
\* text; else RowLabel iff some line has the shape integer, dot, whitespace,
\* text; else PlainLabel.  A file with no line of the full GridRef shape is
\* never processed as GridRef: its records are those of its class.
C3_ProcessedAsItsFullShapeClass ==
  \A j \in 1..Len(sheets) :
    LegacyWritten(j) =>
      LET cols == tree.rogues[j].png.w \div tile_size
          rows == tree.rogues[j].png.h \div tile_size
          fmt  == FullShapeFormat(AllLines(j))
      IN LegacyRecords(j) =
           IF fmt = "GridRef" THEN GridRefLines(AllLines(j))
           ELSE IF fmt = "RowLabel" THEN RowLabelLines(AllLines(j), cols)
           ELSE PlainLabelLines(AllLines(j), cols, rows)

\* C4: a legacy sheet whose pixel width or height is not a multiple of the
\* tile size is skipped: no atlas file and no image copy are written for it.
C4_UnevenSheetIsSkipped ==
  \A j \in 1..Len(sheets) :
    (tree.rogues[j].png.w % tile_size # 0 \/ tree.rogues[j].png.h % tile_size # 0) =>
      /\ sheets[j].outPng \notin DOMAIN outPng
      /\ sheets[j].outAtlas \notin DOMAIN outAtlas

\* five header lines, then one line per record and nothing else, one newline
\* ending each line, as many record lines as the total says
WellFormedAtlas(text) ==
  /\ Len(text) >= 10
  /\ text[1].t = "title"
  /\ text[3].t = "total"
  /\ text[5].t = "sheet"
  /\ text[7].t = "icon"
  /\ text[9].t = "format"
  /\ \A k \in 1..5 : text[2 * k].t = "nl"
  /\ Len(text) = 10 + 2 * text[3].count
  /\ \A k \in 1..text[3].count :
       text[10 + 2 * k - 1].t = "rec" /\ text[10 + 2 * k].t = "nl"

\* C7: every atlas file written, by the packer or by the legacy translator,
\* for any number of records including zero, is five header lines followed by
\* exactly one line per record and nothing else, ends with exactly one
\* newline, and has as many lines after the header as its total says.
C7_AtlasTextWellFormed ==
  \A name \in DOMAIN outAtlas : WellFormedAtlas(outAtlas[name])

\* C10: in PlainLabel format with labelCount lines on a sheet of rows x cols
\* tiles, rowsPerGroup = rows div max(1, labelCount); label k (0-based) gives
\* exactly rowsPerGroup*cols records, one per cell of rows
\* [k*rowsPerGroup, (k+1)*rowsPerGroup) and columns 0..cols-1, at
\* x = c*tileSize, y = (k*rowsPerGroup + r)*tileSize; no two records cover one
\* cell; rows from labelCount*rowsPerGroup on get no record.
C10_PlainLabelBlocks ==
  \A j \in 1..Len(sheets) :
    (LegacyWritten(j) /\ LabelFormat(AllLines(j)) = "PlainLabel") =>
      LET cols  == tree.rogues[j].png.w \div tile_size
          rows  == tree.rogues[j].png.h \div tile_size
          count == Len(AllLines(j))
          group == rows \div (IF count >= 1 THEN count ELSE 1)
          recs  == LegacyRecords(j)
      IN /\ Len(recs) = count * group * cols
         /\ \A k \in 0..(count - 1) : \A r \in 0..(group - 1) : \A c \in 0..(cols - 1) :
              LET rec == recs[k * group * cols + r * cols + c + 1]
              IN /\ rec.x = c * tile_size
                 /\ rec.y = (k * group + r) * tile_size
                 /\ rec.w = tile_size
                 /\ rec.h = tile_size
                 /\ SubSeq(rec.name, 1, Len(AllLines(j)[k + 1])) = AllLines(j)[k + 1]
         /\ \A a, b \in 1..Len(recs) :
              (recs[a].x = recs[b].x /\ recs[a].y = recs[b].y) => a = b
         /\ \A a \in 1..Len(recs) : recs[a].y < count * group * tile_size
         /\ count > rows => recs = <<>>

\* two plain labels on a sheet of three rows: each owns one row, the third
\* row is left without a record
C10_Witness ==
  \E j \in 1..Len(sheets) :
    /\ LegacyWritten(j)
    /\ LabelFormat(AllLines(j)) = "PlainLabel"
    /\ Len(AllLines(j)) = 2
    /\ tree.rogues[j].png.h \div tile_size = 3
    /\ tree.rogues[j].png.w \div tile_size = 2
    /\ Len(LegacyRecords(j)) = 4

\* whether both files of legacy sheet j are there
BothPresent(j) == tree.rogues[j].png.exists /\ tree.rogues[j].txt.exists

\* C9: in the legacy batch a sheet whose image or label file is absent
\* produces no output at all, every other sheet of the list has its image
\* copied and its atlas written, and a sheet is fully written before the next
\* one is started.
C9_AbsentSkippedOthersWritten ==
  \A j \in 1..Len(sheets) :
    /\ ~BothPresent(j) =>
         /\ sheets[j].outPng \notin DOMAIN outPng
         /\ sheets[j].outAtlas \notin DOMAIN outAtlas
    /\ (BothPresent(j) /\ RogueDone(j)) =>
         /\ sheets[j].outPng \in DOMAIN outPng
         /\ sheets[j].outAtlas \in DOMAIN outAtlas
         /\ outPng[sheets[j].outPng].w = tree.rogues[j].png.w
         /\ outPng[sheets[j].outPng].h = tree.rogues[j].png.h
    /\ ~RogueDone(j) =>
         /\ sheets[j].outPng \notin DOMAIN outPng
         /\ sheets[j].outAtlas \notin DOMAIN outAtlas

\* the batch is over: the first sheet lacked its image, the second its
\* labels, the third both, and the last sheet, which had both, is written
C9_Witness ==
  /\ pc = "done"
  /\ ~tree.rogues[1].png.exists /\ tree.rogues[1].txt.exists
  /\ tree.rogues[2].png.exists /\ ~tree.rogues[2].txt.exists
  /\ ~tree.rogues[3].png.exists /\ ~tree.rogues[3].txt.exists
  /\ BothPresent(Len(sheets))
  /\ sheets[Len(sheets)].outAtlas \in DOMAIN outAtlas

====
